---- MODULE Spec2Model ----
(***************************************************************************)
(* A model of pyltr.metrics._metrics.Metric: the swap-delta computation,   *)
(* the lambda / hessian derivation and the query-grouped means.            *)
(*                                                                         *)
(* Python arrays are functions over 0..n-1, so that every index of the     *)
(* model is the index of the source.  Floating point values are exact      *)
(* integers; the logistic is kept in thousandths (see expit).              *)
(***************************************************************************)
EXTENDS Integers, Sequences, FiniteSets, TLC

\* ------------------------------------------------------------------ bounds
MaxN == 3          \* longest query handed to calc_swap_deltas / calc_lambdas_deltas
MaxK == 2          \* largest cutoff a metric reports through max_k()
MaxRows == 3       \* longest qids array handed to calc_mean / calc_mean_random

Labels == {0, 1, 2}        \* relevance labels
PredValues == {0, 1, 2}    \* predicted scores
QidValues == {1, 2}        \* query ids
RowLabels == {0, 1}        \* relevance labels of the rows of a grouped call
RowPreds == {0, 1}         \* predicted scores of the rows of a grouped call
OneQid == {1}              \* the qid of a single-query call (no metric of the model reads it)

None == "None"             \* Python's None, where the other values are strings
NoK == 0 - 1               \* max_k() returning None (a cutoff is an integer >= 0)
NoResult == [kind |-> "none"]   \* the operation has returned nothing

\* ------------------------------------------------------------------ arrays
Len0(a) == Cardinality(DOMAIN a)

Arrays(S, n) == [0 .. n - 1 -> S]

ArraysUpTo(S, lo, hi) == UNION {Arrays(S, n) : n \in lo .. hi}

EmptyArray == [p \in {} |-> 0]

\* np.zeros(n)
ZeroVector(n) == [p \in 0 .. n - 1 |-> 0]

\* np.zeros((n, n))
ZeroMatrix(n) == [r \in 0 .. n - 1 |-> [c \in 0 .. n - 1 |-> 0]]

\* a[lo:hi] on a numpy array: the bounds are clipped to the array, never an error
Slice(a, lo, hi) ==
    LET n == Len0(a)
        l == IF lo < n THEN lo ELSE n
        h == IF hi < n THEN hi ELSE n
        m == IF h > l THEN h - l ELSE 0
    IN  [p \in 0 .. m - 1 |-> a[l + p]]

RECURSIVE SumTo(_, _)
\* f[0] + ... + f[K-1]
SumTo(f, K) == IF K <= 0 THEN 0 ELSE f[K - 1] + SumTo(f, K - 1)

\* ------------------------------------------------------------------ metrics
(* Metric is abstract: a concrete metric overrides evaluate() and, when it  *)
(* has a cutoff, max_k().  The model runs the generic algorithms over a     *)
(* small family of metrics, [kind, k]:                                      *)
(*   abstract  the base class itself: evaluate raises, max_k() is None      *)
(*   gain      sum of targets[p] * (n - p) over the ranks p below the       *)
(*             cutoff k (all ranks when k is None); max_k() is k            *)
(*   topcount  number of targets > 0 in the top k ranks; max_k() is k       *)
(*   lying     gain over all ranks although max_k() reports k               *)
(*   inverted  minus the gain: prefers the less relevant item on top        *)
(*   partial   gain, but raises when the top target is 0                    *)
(*   stateful  gain minus the number of evaluate calls made before          *)
Metrics ==
    {[kind |-> "abstract", k |-> NoK]}
    \cup [kind : {"gain"}, k : {NoK} \cup (0 .. MaxK)]
    \cup [kind : {"topcount", "lying"}, k : 1 .. MaxK]
    \cup [kind : {"inverted", "partial", "stateful"}, k : {NoK}]

PureKinds == {"gain", "topcount", "lying", "inverted", "partial"}

\* Metric.max_k: None in the base class, the cutoff in a metric that has one
MetricMaxK(m) == m.k

Gain(t, K) ==
    LET n == Len0(t) IN SumTo([p \in 0 .. n - 1 |-> t[p] * (n - p)], K)

Cut(m, n) == IF m.k = NoK \/ n < m.k THEN n ELSE m.k

\* does evaluate(qid, t) raise?  (the base class always does)
Raises(m, q, t) ==
    \/ m.kind = "abstract"
    \/ m.kind = "partial" /\ Len0(t) > 0 /\ t[0] = 0

RaisedError(m) ==
    IF m.kind = "abstract" THEN "NotImplementedError" ELSE "ZeroDivisionError"

\* the value of evaluate(qid, t) when it does not raise; c is the number of
\* evaluate calls the metric object has served before this one
Evaluate(m, q, t, c) ==
    LET n == Len0(t) IN
    CASE m.kind = "gain" -> Gain(t, Cut(m, n))
      [] m.kind = "topcount" -> Cardinality({p \in 0 .. Cut(m, n) - 1 : t[p] > 0})
      [] m.kind = "lying" -> Gain(t, n)
      [] m.kind = "inverted" -> 0 - Gain(t, n)
      [] m.kind = "partial" -> Gain(t, n)
      [] m.kind = "stateful" -> Gain(t, n) - c
      [] OTHER -> 0

\* ------------------------------------------------------------------ state
VARIABLES
    op,           \* the operation in progress or just ended
    pc,           \* "idle", "swap_loop", "lambda_loop", "returned", "raised"
    metric,       \* self
    qid,          \* the qid argument
    qids,         \* the qids argument of calc_mean / calc_mean_random
    targets,      \* the caller's targets array
    preds,        \* the caller's preds array
    input_targets, \* the content of targets when the operation was called
    positions,    \* calc_lambdas_deltas: rank -> original row
    actual,       \* calc_lambdas_deltas: targets[positions]
    original,     \* calc_swap_deltas: the metric before any exchange
    max_k,        \* the effective cutoff of the running loop
    i, j,         \* the rank pair the running loop is about to handle
    swap_deltas,  \* the matrix calc_swap_deltas fills (its local `deltas`)
    lambdas,      \* calc_lambdas_deltas: first derivatives, in thousandths
    deltas,       \* calc_lambdas_deltas: second derivatives, in millionths
    result,       \* what the operation returned
    error,        \* the exception that left the operation, or None
    evalCalls     \* evaluate calls made since the operation was called

vars == <<op, pc, metric, qid, qids, targets, preds, input_targets,
          positions, actual, original, max_k, i, j, swap_deltas, lambdas, deltas,
          result, error, evalCalls>>

Init ==
    /\ op = "none"
    /\ pc = "idle"
    /\ metric = [kind |-> "abstract", k |-> NoK]
    /\ qid = 0
    /\ qids = EmptyArray
    /\ targets = EmptyArray
    /\ preds = EmptyArray
    /\ input_targets = EmptyArray
    /\ positions = EmptyArray
    /\ actual = EmptyArray
    /\ original = 0
    /\ max_k = 0
    /\ i = 0
    /\ j = 0
    /\ swap_deltas = EmptyArray
    /\ lambdas = EmptyArray
    /\ deltas = EmptyArray
    /\ result = NoResult
    /\ error = None
    /\ evalCalls = 0

\* no call has been made yet.  Nothing persists from one call to the next (the
\* class has no fields), so a behaviour of the model is one call, from "idle"
\* to "returned" or "raised"
AtRest == pc = "idle"

\* ------------------------------------------------------------------ calc_swap_deltas
\* the exchange written without tmp: t[a] = t[b]; t[b] = t[a]
SwapWithoutTmp(t, a, b) == [t EXCEPT ![a] = t[b]]

\* lines 67-69 and 71-73: tmp = t[a]; t[a] = t[b]; t[b] = tmp
Swap(t, a, b) ==
    LET tmp == t[a]
        t1 == [t EXCEPT ![a] = t[b]]
    IN  [t1 EXCEPT ![b] = tmp]

\* the exchange back left out
SwapBackSkipped(t, a, b) == t

\* lines 71-73: the exchange back, after evaluate has returned
SwapBack(t, a, b) == Swap(t, a, b)

\* the cutoff ignored: the loops run over every row
IgnoreMaxK(k, n) == n

\* lines 61-63 (and 103-105): the cutoff the loops run to
EffectiveMaxK(k, n) == IF k = NoK \/ n < k THEN n ELSE k

\* the pair after (a, b) in `for i in range(max_k): for j in range(i + 1, n)`
NextPair(a, b, n) == IF b + 1 < n THEN <<a, b + 1>> ELSE <<a + 1, a + 2>>

\* the loops have a pair left to handle
HasPair(n) == i < max_k /\ j < n

\* the array calc_swap_deltas was handed: the caller's targets, or the local
\* `actual` of calc_lambdas_deltas
SwapArg == IF op = "calc_swap_deltas" THEN targets ELSE actual

\* lines 58-63, entered with array t
EnterSwapDeltas(t) ==
    /\ evalCalls' = 1
    /\ swap_deltas' = ZeroMatrix(Len0(t))
    /\ IF Raises(metric', qid', t)
       THEN /\ pc' = "raised"
            /\ error' = RaisedError(metric')
            /\ UNCHANGED <<original, max_k>>
       ELSE /\ pc' = "swap_loop"
            /\ error' = None
            /\ original' = Evaluate(metric', qid', t, 0)
            /\ max_k' = EffectiveMaxK(MetricMaxK(metric'), Len0(t))
    /\ i' = 0
    /\ j' = 1

\* a caller calls metric.calc_swap_deltas(q, t)
CallSwapDeltas ==
    /\ AtRest
    /\ \E m \in Metrics, q \in OneQid, t \in ArraysUpTo(Labels, 0, MaxN) :
        /\ op' = "calc_swap_deltas"
        /\ metric' = m
        /\ qid' = q
        /\ targets' = t
        /\ input_targets' = t
        /\ EnterSwapDeltas(t)
    /\ result' = NoResult
    /\ UNCHANGED <<qids, preds, positions, actual, lambdas, deltas>>

\* lines 66-73: one iteration of the inner loop, on the pair (i, j)
SwapIter ==
    /\ pc = "swap_loop"
    /\ HasPair(Len0(SwapArg))
    /\ LET exchanged == Swap(SwapArg, i, j)
           raises == Raises(metric, qid, exchanged)
           after == IF raises THEN exchanged ELSE SwapBack(exchanged, i, j)
           nxt == NextPair(i, j, Len0(SwapArg))
       IN  /\ evalCalls' = evalCalls + 1
           /\ IF op = "calc_swap_deltas"
              THEN targets' = after /\ UNCHANGED actual
              ELSE actual' = after /\ UNCHANGED targets
           /\ IF raises
              THEN /\ pc' = "raised"
                   /\ error' = RaisedError(metric)
                   /\ UNCHANGED <<swap_deltas, i, j>>
              ELSE /\ swap_deltas' =
                        [swap_deltas EXCEPT ![i][j] =
                            Evaluate(metric, qid, exchanged, evalCalls) - original]
                   /\ i' = nxt[1]
                   /\ j' = nxt[2]
                   /\ UNCHANGED <<pc, error>>
    /\ UNCHANGED <<op, metric, qid, qids, preds, input_targets, positions,
                   original, max_k, lambdas, deltas, result>>

\* line 75, called by the caller: return deltas
SwapReturn ==
    /\ pc = "swap_loop"
    /\ op = "calc_swap_deltas"
    /\ ~HasPair(Len0(SwapArg))
    /\ pc' = "returned"
    /\ result' = [kind |-> "matrix", deltas |-> swap_deltas]
    /\ UNCHANGED <<op, metric, qid, qids, targets, preds, input_targets,
                   positions, actual, original, max_k, i, j, swap_deltas, lambdas,
                   deltas, error, evalCalls>>

\* ------------------------------------------------------------------ util.sort
\* the rank of row a when the rows are ordered by descending preds, rows with
\* equal preds keeping their original order
RankOf(p, a) ==
    Cardinality({b \in DOMAIN p : p[b] > p[a] \/ (p[b] = p[a] /\ b < a)})

\* get_sorted_y_positions(y, y_pred): positions[r] is the original row of the
\* item ranked r
get_sorted_y_positions(y, y_pred) ==
    [r \in 0 .. Len0(y_pred) - 1 |-> CHOOSE a \in DOMAIN y_pred : RankOf(y_pred, a) = r]

\* y[positions]: numpy's indexing by an index array builds a new array
TakeRows(y, pos) == [r \in DOMAIN pos |-> y[pos[r]]]

\* get_sorted_y(y, y_pred): y in descending order of y_pred
get_sorted_y(y, y_pred) == TakeRows(y, get_sorted_y_positions(y, y_pred))

\* ------------------------------------------------------------------ calc_lambdas_deltas
\* scipy.special.expit(x) = 1 / (1 + exp(-x)), in thousandths, rounded
ExpitPos(x) ==
    CASE x = 0 -> 500
      [] x = 1 -> 731
      [] x = 2 -> 881
      [] x = 3 -> 953
      [] x = 4 -> 982
      [] x = 5 -> 993
      [] x = 6 -> 998
      [] x = 7 -> 999
      [] OTHER -> 1000

expit(x) == IF x >= 0 THEN ExpitPos(x) ELSE 1000 - ExpitPos(0 - x)

\* the assert statements left out
AssertDropped(cond) == TRUE

\* lines 123 and 129: an assert statement lets the call go on only if cond holds
AssertHolds(cond) == cond

\* the rank taken for the original row
RankAsRow(pos, r) == r

\* line 119: the original row of the item ranked r
RowOf(pos, r) == pos[r]

\* the test of line 112 left out
NeverSameRelevance(x, y) == FALSE

\* line 112: the pair is skipped when the two targets are equal
SameRelevance(x, y) == x = y

\* a caller calls metric.calc_lambdas_deltas(q, t, p); lines 98-102, up to and
\* including lines 58-63 of the calc_swap_deltas it calls
CallLambdasDeltas ==
    /\ AtRest
    /\ \E m \in Metrics, q \in OneQid, n \in 0 .. MaxN :
        \E t \in Arrays(Labels, n), p \in Arrays(PredValues, n) :
            /\ op' = "calc_lambdas_deltas"
            /\ metric' = m
            /\ qid' = q
            /\ targets' = t
            /\ input_targets' = t
            /\ preds' = p
            /\ positions' = get_sorted_y_positions(t, p)
            /\ actual' = TakeRows(t, positions')
            /\ EnterSwapDeltas(actual')
    /\ result' = NoResult
    /\ UNCHANGED <<qids, lambdas, deltas>>

\* lines 102-108: calc_swap_deltas has returned to calc_lambdas_deltas
SwapReturnToLambdas ==
    /\ pc = "swap_loop"
    /\ op = "calc_lambdas_deltas"
    /\ ~HasPair(Len0(SwapArg))
    /\ pc' = "lambda_loop"
    /\ max_k' = EffectiveMaxK(MetricMaxK(metric), Len0(targets))
    /\ lambdas' = ZeroVector(Len0(targets))
    /\ deltas' = ZeroVector(Len0(targets))
    /\ i' = 0
    /\ j' = 1
    /\ UNCHANGED <<op, metric, qid, qids, targets, preds, input_targets,
                   positions, actual, original, swap_deltas, result, error,
                   evalCalls>>

\* the pair (i, j) passes lines 112-117: it contributes to lambdas and deltas
Contributes == ~SameRelevance(actual[i], actual[j]) /\ swap_deltas[i][j] # 0

\* lines 122-133: the logistic of the pair, in thousandths
PairLogistic(a, b) ==
    IF actual[i] < actual[j]
    THEN expit(preds[a] - preds[b])
    ELSE expit(preds[b] - preds[a])

\* lines 125 and 131: l, in thousandths
PairL(a, b) ==
    IF actual[i] < actual[j]
    THEN PairLogistic(a, b) * swap_deltas[i][j]
    ELSE PairLogistic(a, b) * (0 - swap_deltas[i][j])

\* lines 123 and 129: the condition asserted on the pair
PairAsserted ==
    IF actual[i] < actual[j] THEN swap_deltas[i][j] > 0 ELSE swap_deltas[i][j] < 0

\* lines 111-137: one iteration of the inner loop, on the pair (i, j)
LambdaIter ==
    /\ pc = "lambda_loop"
    /\ HasPair(Len0(targets))
    /\ LET nxt == NextPair(i, j, Len0(targets))
           a == RowOf(positions, i)
           b == RowOf(positions, j)
           l == PairL(a, b)
           hess == (1000 - PairLogistic(a, b)) * l
           lam1 == IF actual[i] < actual[j]
                   THEN [lambdas EXCEPT ![a] = @ - l]
                   ELSE [lambdas EXCEPT ![a] = @ + l]
           lam2 == IF actual[i] < actual[j]
                   THEN [lam1 EXCEPT ![b] = @ + l]
                   ELSE [lam1 EXCEPT ![b] = @ - l]
           del1 == [deltas EXCEPT ![a] = @ + hess]
           del2 == [del1 EXCEPT ![b] = @ + hess]
       IN  IF ~Contributes
           THEN /\ i' = nxt[1]
                /\ j' = nxt[2]
                /\ UNCHANGED <<lambdas, deltas, pc, error>>
           ELSE IF ~AssertHolds(PairAsserted)
           THEN /\ pc' = "raised"
                /\ error' = "AssertionError"
                /\ UNCHANGED <<lambdas, deltas, i, j>>
           ELSE /\ lambdas' = lam2
                /\ deltas' = del2
                /\ i' = nxt[1]
                /\ j' = nxt[2]
                /\ UNCHANGED <<pc, error>>
    /\ UNCHANGED <<op, metric, qid, qids, targets, preds, input_targets,
                   positions, actual, original, max_k, swap_deltas, result,
                   evalCalls>>

\* line 139: return lambdas, deltas
LambdasReturn ==
    /\ pc = "lambda_loop"
    /\ ~HasPair(Len0(targets))
    /\ pc' = "returned"
    /\ result' = [kind |-> "vectors", lambdas |-> lambdas, deltas |-> deltas]
    /\ UNCHANGED <<op, metric, qid, qids, targets, preds, input_targets,
                   positions, actual, original, max_k, i, j, swap_deltas, lambdas,
                   deltas, error, evalCalls>>

\* ------------------------------------------------------------------ util.group
\* check_qids(qids) fails: a run of equal qids starts with a value met before
check_qids_fails(q) ==
    \E p \in DOMAIN q :
        /\ p > 0
        /\ q[p] # q[p - 1]
        /\ \E e \in 0 .. p - 1 : q[e] = q[p]

\* the rows at which a run of equal qids starts
GroupStarts(q) == {p \in DOMAIN q : p = 0 \/ q[p] # q[p - 1]}

\* the end of the run that starts at row a
GroupEnd(q, a) ==
    LET later == {p \in GroupStarts(q) : p > a}
    IN  IF later = {} THEN Len0(q)
        ELSE CHOOSE p \in later : \A x \in later : p <= x

\* get_groups(qids): the (qid, start, end) of every run, in encounter order
get_groups(q) ==
    [idx \in 1 .. Cardinality(GroupStarts(q)) |->
        LET a == CHOOSE x \in GroupStarts(q) :
                     Cardinality({y \in GroupStarts(q) : y < x}) = idx - 1
        IN  [qid |-> q[a], a |-> a, b |-> GroupEnd(q, a)]]

\* ------------------------------------------------------------------ calc_mean
\* line 174: does evaluate_preds(q, t, p) raise?
evaluate_preds_raises(m, q, t, p) == Raises(m, q, get_sorted_y(t, p))

\* line 174: evaluate_preds(q, t, p), after c evaluate calls
evaluate_preds(m, q, t, p, c) == Evaluate(m, q, get_sorted_y(t, p), c)

RECURSIVE SeqSum(_)
SeqSum(sq) == IF sq = <<>> THEN 0 ELSE Head(sq) + SeqSum(Tail(sq))

\* np.sum taken for np.mean
SumForMean(values) ==
    IF values = <<>> THEN [kind |-> "nan"]
    ELSE [kind |-> "mean", num |-> SeqSum(values), den |-> 1]

\* np.mean(values): num / den, and nan for no value at all
Mean(values) ==
    IF values = <<>> THEN [kind |-> "nan"]
    ELSE [kind |-> "mean", num |-> SeqSum(values), den |-> Len(values)]

\* the grouping check left out
QidsNeverChecked(q) == FALSE

\* lines 221 and 246: check_qids(qids) raises
QidsRejected(q) == check_qids_fails(q)

\* the groups, in order, whose evaluate_preds raises (line 223)
RaisingGroups(m, groups, t, p) ==
    {idx \in DOMAIN groups :
        evaluate_preds_raises(m, groups[idx].qid,
                              Slice(t, groups[idx].a, groups[idx].b),
                              Slice(p, groups[idx].a, groups[idx].b))}

\* lines 223-224: the list the mean is taken of
GroupScores(m, groups, t, p) ==
    [idx \in DOMAIN groups |->
        evaluate_preds(m, groups[idx].qid,
                       Slice(t, groups[idx].a, groups[idx].b),
                       Slice(p, groups[idx].a, groups[idx].b), idx - 1)]

\* a caller calls metric.calc_mean(qs, t, p): lines 221-224
CalcMean ==
    /\ AtRest
    /\ \E m \in Metrics, qs \in ArraysUpTo(QidValues, 0, MaxRows), n \in 0 .. MaxRows :
        \E t \in Arrays(RowLabels, n), p \in Arrays(RowPreds, n) :
            /\ op' = "calc_mean"
            /\ metric' = m
            /\ qids' = qs
            /\ targets' = t
            /\ input_targets' = t
            /\ preds' = p
            /\ IF QidsRejected(qs)
               THEN /\ pc' = "raised"
                    /\ error' = "GroupingError"
                    /\ evalCalls' = 0
                    /\ result' = NoResult
               ELSE LET groups == get_groups(qs)
                        raising == RaisingGroups(m, groups, t, p)
                        first == CHOOSE x \in raising : \A y \in raising : x <= y
                    IN  IF raising # {}
                        THEN /\ pc' = "raised"
                             /\ error' = RaisedError(m)
                             /\ evalCalls' = first
                             /\ result' = NoResult
                        ELSE /\ pc' = "returned"
                             /\ error' = None
                             /\ evalCalls' = Len(groups)
                             /\ result' = Mean(GroupScores(m, groups, t, p))
    /\ UNCHANGED <<qid, positions, actual, original, max_k, i, j, swap_deltas,
                   lambdas, deltas>>

\* ------------------------------------------------------------------ calc_mean_random
NumShuffles == 100

\* the orders np.random.shuffle can leave t in
Shuffles(t) ==
    LET n == Len0(t)
        perms == {f \in [0 .. n - 1 -> 0 .. n - 1] :
                    \A x, y \in 0 .. n - 1 : f[x] = f[y] => x = y}
    IN  {TakeRows(t, f) : f \in perms}

\* lines 195-200, calc_random_ev(q, t): the values evaluate can take on the
\* shuffled copy.  The mean returned is the mean of NumShuffles values, each
\* one of these (less its call number, for a metric with a state).
RandomScores(m, q, t) ==
    {Evaluate(m, q, s, 0) : s \in {x \in Shuffles(t) : ~Raises(m, q, x)}}

\* some shuffle makes evaluate raise
CanRaise(m, q, t) == \E s \in Shuffles(t) : Raises(m, q, s)

\* some shuffle lets evaluate return
CanPass(m, q, t) == \E s \in Shuffles(t) : ~Raises(m, q, s)

\* a caller calls metric.calc_mean_random(qs, t): lines 246-249.  Every outcome
\* the random shuffles allow is a successor.
CalcMeanRandom ==
    /\ AtRest
    /\ \E m \in Metrics, qs \in ArraysUpTo(QidValues, 0, MaxRows),
          t \in ArraysUpTo(RowLabels, 0, MaxRows) :
        /\ op' = "calc_mean_random"
        /\ metric' = m
        /\ qids' = qs
        /\ targets' = t
        /\ input_targets' = t
        /\ IF QidsRejected(qs)
           THEN /\ pc' = "raised"
                /\ error' = "GroupingError"
                /\ evalCalls' = 0
                /\ result' = NoResult
           ELSE LET groups == get_groups(qs)
                    part(idx) == Slice(t, groups[idx].a, groups[idx].b)
                    passes(idx) == CanPass(m, groups[idx].qid, part(idx))
                IN  \/ \* evaluate raises in shuffle number s of group g
                       \E g \in DOMAIN groups :
                          /\ \A idx \in 1 .. g - 1 : passes(idx)
                          /\ CanRaise(m, groups[g].qid, part(g))
                          /\ \E s \in IF passes(g) THEN 1 .. NumShuffles ELSE {1} :
                                evalCalls' = NumShuffles * (g - 1) + s
                          /\ pc' = "raised"
                          /\ error' = RaisedError(m)
                          /\ result' = NoResult
                    \/ \* no evaluate call raises
                       /\ \A idx \in DOMAIN groups : passes(idx)
                       /\ pc' = "returned"
                       /\ error' = None
                       /\ evalCalls' = NumShuffles * Len(groups)
                       /\ result' =
                            IF groups = <<>> THEN [kind |-> "nan"]
                            ELSE [kind |-> "random_mean",
                                  scores |-> [idx \in DOMAIN groups |->
                                      RandomScores(m, groups[idx].qid, part(idx))],
                                  den |-> Len(groups)]
    /\ UNCHANGED <<qid, preds, positions, actual, original, max_k, i, j,
                   swap_deltas, lambdas, deltas>>

NextMean == CalcMean \/ CalcMeanRandom

\* calc_mean and calc_mean_random
SpecMean == Init /\ [][NextMean]_vars

\* ------------------------------------------------------------------ the engines
NextEngines ==
    \/ CallSwapDeltas
    \/ SwapIter
    \/ SwapReturn
    \/ CallLambdasDeltas
    \/ SwapReturnToLambdas
    \/ LambdaIter
    \/ LambdasReturn

\* calc_swap_deltas and calc_lambdas_deltas
SpecEngines == Init /\ [][NextEngines]_vars

Next == NextEngines \/ NextMean

Spec == Init /\ [][Next]_vars

\* ------------------------------------------------------------------ claims: the engines
SwapReturned == op = "calc_swap_deltas" /\ pc = "returned"

LambdasReturned == op = "calc_lambdas_deltas" /\ pc = "returned"

\* t with the values at positions a and b exchanged, every other position kept
Exchanged(t, a, b) ==
    [p \in DOMAIN t |-> IF p = a THEN t[b] ELSE IF p = b THEN t[a] ELSE t[p]]

\* the cutoff as the specification words it
ClaimedK(m, n) == IF m.k # NoK /\ m.k < n THEN m.k ELSE n

\* the rank pairs (r, c) the loops visit
VisitedPairs(m, n) ==
    {rc \in (0 .. n - 1) \X (0 .. n - 1) : rc[1] < ClaimedK(m, n) /\ rc[1] < rc[2]}

\* C1: the targets array handed to calc_swap_deltas holds its original values, in
\* their original order, at the start of every (i, j) iteration and when the call
\* returns; the targets array handed to calc_lambdas_deltas is unchanged when
\* that call returns.
C1_TargetsUnchanged ==
    /\ (op = "calc_swap_deltas" /\ pc \in {"swap_loop", "returned"})
          => targets = input_targets
    /\ LambdasReturned => targets = input_targets

\* a calc_swap_deltas call has returned after exchanging two different values
C1_Witness ==
    /\ SwapReturned
    /\ evalCalls > 1
    /\ Len0(targets) >= 2
    /\ targets[0] # targets[1]

\* C2: with a cutoff k = max_k(), every entry of a row r >= k of the returned
\* matrix is 0, and for any metric every entry on or below the diagonal is 0.
C2_RowsFromCutoffZero ==
    SwapReturned =>
        LET n == Len0(input_targets)
            d == result.deltas
        IN  /\ metric.k # NoK =>
                  \A r \in 0 .. n - 1, c \in 0 .. n - 1 : r >= metric.k => d[r][c] = 0
            /\ \A r \in 0 .. n - 1, c \in 0 .. n - 1 : c <= r => d[r][c] = 0

\* a metric whose value does change under an exchange below its reported cutoff
\* has returned, with a row above the cutoff filled
C2_Witness ==
    /\ SwapReturned
    /\ metric.kind = "lying"
    /\ metric.k + 1 < Len0(targets)
    /\ targets[metric.k] # targets[metric.k + 1]
    /\ result.deltas[0][1] # 0

\* C3: for every pair r < K, r < c < n the returned matrix holds
\* evaluate(targets with r and c exchanged) - evaluate(targets), K being max_k()
\* when it is defined and less than n, and n otherwise (for a metric whose
\* evaluate is a function of its arguments).
C3_DeltaIsExchangeMinusOriginal ==
    (SwapReturned /\ metric.kind \in PureKinds) =>
        \A rc \in VisitedPairs(metric, Len0(input_targets)) :
            result.deltas[rc[1]][rc[2]] =
                Evaluate(metric, qid, Exchanged(input_targets, rc[1], rc[2]), 0)
                    - Evaluate(metric, qid, input_targets, 0)

\* three different targets, and the exchange of the outer two changes the metric
C3_Witness ==
    /\ SwapReturned
    /\ metric.kind = "gain"
    /\ Len0(targets) = 3
    /\ targets[0] < targets[1]
    /\ targets[1] < targets[2]
    /\ result.deltas[0][2] > 0

\* C4: when all targets are equal, calc_lambdas_deltas returns lambdas and
\* second derivatives that are all 0, whatever the swap deltas are.
C4_EqualTargetsGiveZeros ==
    (LambdasReturned /\ \A x, y \in DOMAIN input_targets : input_targets[x] = input_targets[y])
        => /\ \A x \in DOMAIN result.lambdas : result.lambdas[x] = 0
           /\ \A x \in DOMAIN result.deltas : result.deltas[x] = 0

\* equal targets whose swap delta is not 0 (the metric has a state)
C4_Witness ==
    /\ LambdasReturned
    /\ Len0(targets) >= 2
    /\ \A x, y \in DOMAIN targets : targets[x] = targets[y]
    /\ swap_deltas[0][1] # 0

\* the sign of the swap delta of (r, c) contradicts the relevance order
SignContradicts(r, c) ==
    \/ actual[r] < actual[c] /\ swap_deltas[r][c] <= 0
    \/ actual[r] > actual[c] /\ swap_deltas[r][c] >= 0

C7_ReturnedOnlyIfSignsAgree ==
    LambdasReturned =>
        \A rc \in VisitedPairs(metric, Len0(input_targets)) :
            (actual[rc[1]] # actual[rc[2]] /\ swap_deltas[rc[1]][rc[2]] # 0)
                => /\ actual[rc[1]] < actual[rc[2]] => swap_deltas[rc[1]][rc[2]] > 0
                   /\ actual[rc[1]] > actual[rc[2]] => swap_deltas[rc[1]][rc[2]] < 0

C7_ContradictionRaises ==
    (/\ pc = "lambda_loop"
     /\ HasPair(Len0(targets))
     /\ actual[i] # actual[j]
     /\ swap_deltas[i][j] # 0
     /\ SignContradicts(i, j))
        => /\ pc' = "raised"
           /\ error' = "AssertionError"
           /\ result' = NoResult

\* C7: in calc_lambdas_deltas a pair with different targets and a nonzero swap
\* delta whose sign contradicts the relevance order ends the call with an
\* assertion error and no result; the call returns only if every such pair has
\* delta > 0 when actual[i] < actual[j] and delta < 0 when actual[i] > actual[j].
C7_SignContradictionIsFatal ==
    /\ []C7_ReturnedOnlyIfSignsAgree
    /\ [][C7_ContradictionRaises]_vars

\* the call has ended with the assertion error, on a pair of the wrong sign
C7_Witness ==
    /\ op = "calc_lambdas_deltas"
    /\ pc = "raised"
    /\ error = "AssertionError"
    /\ SignContradicts(i, j)

\* C8 (as stated): when evaluate raises inside calc_swap_deltas, the targets
\* array is identical to the array that was passed in.
C8_TargetsRestoredOnException ==
    (op = "calc_swap_deltas" /\ pc = "raised") => targets = input_targets

RECURSIVE SumOver(_, _)
\* the sum of f over the finite set S of its arguments
SumOver(f, S) ==
    IF S = {} THEN 0
    ELSE LET x == CHOOSE y \in S : TRUE IN f[x] + SumOver(f, S \ {x})

\* the original rows of the pairs that contribute
ContributingRows ==
    UNION {{positions[rc[1]], positions[rc[2]]} :
             rc \in {pr \in VisitedPairs(metric, Len0(input_targets)) :
                       /\ actual[pr[1]] # actual[pr[2]]
                       /\ swap_deltas[pr[1]][pr[2]] # 0}}

C10_Returned ==
    LambdasReturned =>
        /\ DOMAIN result.lambdas = DOMAIN input_targets
        /\ DOMAIN result.deltas = DOMAIN input_targets
        /\ SumOver(result.lambdas, DOMAIN result.lambdas) = 0
        /\ \A x \in DOMAIN input_targets \ ContributingRows :
               result.lambdas[x] = 0 /\ result.deltas[x] = 0

C10_Iteration ==
    (pc = "lambda_loop" /\ HasPair(Len0(targets)) /\ pc' = "lambda_loop") =>
        IF actual[i] # actual[j] /\ swap_deltas[i][j] # 0
        THEN LET a == positions[i]
                 b == positions[j]
                 less == IF actual[i] < actual[j] THEN a ELSE b
                 more == IF actual[i] < actual[j] THEN b ELSE a
                 logistic == expit(preds[less] - preds[more])
                 l == lambdas'[more] - lambdas[more]
             IN  /\ l >= 0
                 /\ swap_deltas[i][j] > 0 => l = logistic * swap_deltas[i][j]
                 /\ swap_deltas[i][j] < 0 => l = logistic * (0 - swap_deltas[i][j])
                 /\ lambdas'[less] = lambdas[less] - l
                 /\ deltas'[a] = deltas[a] + (1000 - logistic) * l
                 /\ deltas'[b] = deltas[b] + (1000 - logistic) * l
                 /\ \A x \in DOMAIN lambdas \ {a, b} :
                        lambdas'[x] = lambdas[x] /\ deltas'[x] = deltas[x]
        ELSE lambdas' = lambdas /\ deltas' = deltas

\* C10: lambdas and second derivatives are indexed by original row: a
\* contributing pair (i, j), with a = positions[i] and b = positions[j], lowers
\* the lambda of the less relevant of a and b by l >= 0, raises the lambda of
\* the more relevant one by the same l, raises the second derivative of both by
\* (1 - logistic) * l and changes no other entry; the returned lambdas sum to 0
\* and a row of no contributing pair has lambda 0 and second derivative 0.
C10_PairUpdatesByOriginalRow ==
    /\ []C10_Returned
    /\ [][C10_Iteration]_vars

\* a call has returned where ranks and rows differ and a pair has contributed
C10_Witness ==
    /\ LambdasReturned
    /\ Len0(targets) = 3
    /\ positions[0] # 0
    /\ positions[2] # 2
    /\ \E x \in DOMAIN result.lambdas : result.lambdas[x] > 0
    /\ \E x \in DOMAIN result.lambdas : result.lambdas[x] = 0

\* ------------------------------------------------------------------ claims: the means
MeanReturned == op = "calc_mean" /\ pc = "returned"

Grouped == op \in {"calc_mean", "calc_mean_random"} /\ pc # "idle"

\* the qids met in q
QidsOf(q) == {q[p] : p \in DOMAIN q}

\* the first row of qid v, and the row after its last
FirstRow(q, v) == CHOOSE p \in DOMAIN q : q[p] = v /\ \A x \in DOMAIN q : q[x] = v => p <= x
EndRow(q, v) == 1 + CHOOSE p \in DOMAIN q : q[p] = v /\ \A x \in DOMAIN q : q[x] = v => x <= p

\* evaluate_preds on the rows of qid v
QueryScore(v) ==
    evaluate_preds(metric, v,
                   Slice(targets, FirstRow(qids, v), EndRow(qids, v)),
                   Slice(preds, FirstRow(qids, v), EndRow(qids, v)), 0)

\* C5: calc_mean returns the sum, over the queries, of evaluate_preds on the
\* rows of the query, divided by the number of queries, whatever the number of
\* rows of each; with one query it returns that query's evaluate_preds (for a
\* metric whose evaluate is a function of its arguments).
C5_MeanOverQueries ==
    (MeanReturned /\ metric.kind \in PureKinds /\ Len0(qids) > 0) =>
        /\ result.kind = "mean"
        /\ result.den = Cardinality(QidsOf(qids))
        /\ result.num = SumOver([v \in QidsOf(qids) |-> QueryScore(v)], QidsOf(qids))
        /\ (Cardinality(QidsOf(qids)) = 1 /\ Len0(targets) = Len0(qids)) =>
               /\ result.den = 1
               /\ result.num = evaluate_preds(metric, qids[0], targets, preds, 0)

\* two queries of different length, with different scores
C5_Witness ==
    /\ MeanReturned
    /\ metric.kind = "gain"
    /\ Len0(qids) = 3
    /\ Len0(targets) = 3
    /\ qids[0] = qids[1]
    /\ qids[1] # qids[2]
    /\ QueryScore(qids[0]) > QueryScore(qids[2])
    /\ QueryScore(qids[2]) > 0

\* a qid comes back after another one
Reappears(q) ==
    \E x, y, z \in DOMAIN q : x < y /\ y < z /\ q[x] = q[z] /\ q[x] # q[y]

\* C6: when a qid reappears after a different qid, calc_mean and
\* calc_mean_random end with the grouping error, having called evaluate not
\* once and returning nothing; when no qid does, they do not end with it.
C6_GroupingErrorSurfaces ==
    Grouped =>
        IF Reappears(qids)
        THEN /\ pc = "raised"
             /\ error = "GroupingError"
             /\ evalCalls = 0
             /\ result = NoResult
        ELSE error # "GroupingError"

\* calc_mean_random has ended with the grouping error, on rows it could score
C6_Witness ==
    /\ op = "calc_mean_random"
    /\ pc = "raised"
    /\ error = "GroupingError"
    /\ Len0(targets) = Len0(qids)
    /\ metric.kind = "gain"

\* C9 (as stated): when qids, targets and preds differ in length, calc_mean and
\* calc_mean_random end with an error and return nothing.
C9_ShapeMismatchReported ==
    (Grouped /\ Len0(qids) # Len0(targets)) =>
        /\ pc = "raised"
        /\ result = NoResult

====
